---- MODULE Spec2Model ----
(***************************************************************************)
(* blackbox_exporter, main package: startup, the reload goroutine that     *)
(* serialises SIGHUP and POST /-/reload triggers, and the HTTP handlers    *)
(* (/-/reload, /probe, /config, /, /metrics) with the IP whitelist gate.   *)
(* Durations are counted in half seconds, so that the default timeout     *)
(* offset of 0.5 s is the integer 1.                                       *)
(***************************************************************************)
EXTENDS Integers, Sequences, FiniteSets, TLC

(* ------------------------------ bounds --------------------------------- *)

\* Number of requests the HTTP server handles at the same time.
NumReq == 2
\* Number of reload triggers (SIGHUPs and POSTs to /-/reload) in one run.
MaxTriggers == 2
\* Longest time (half seconds) a prober call is observed to take.
MaxElapsed == 1

Slots == 1..NumReq

VARIABLES
    mainPc,       \* main: "start", "whitelist", "serving" or "fatal"
    store,        \* sc.C, the active configuration
    mu,           \* sc's RWMutex: writer (0 none, -1 the reload goroutine, else a
                  \* request) and the set of requests holding a read lock
    ipWhitelistString, \* the value of --web.ip-whitelist, a list of entries
    ipWhitelist,  \* the networks parsed from --web.ip-whitelist
    med,          \* the reload goroutine: where it is and its locals
    running,      \* number of ReloadConfig calls in progress
    reqs,         \* the requests being handled, one record per handler
    triggers,     \* reload triggers raised so far (SIGHUPs and POSTs)
    attempts,     \* ReloadConfig calls the reload goroutine has made
    leftStore,    \* sc.C as the last successful ReloadConfig call published it
    outcome       \* per request: what the reload attempt run for it returned

vars == <<mainPc, store, mu, ipWhitelistString, ipWhitelist, med, running, reqs, triggers, attempts,
          leftStore, outcome>>

(* --------------------------- configuration ----------------------------- *)

NoModule == [prober |-> "", timeout |-> -1]

\* Module names a configuration file may define.
ModuleNames == {"http_2xx", "m2"}

\* sc.C as constructed: &config.Config{}, no modules.
EmptyConfig == [n \in ModuleNames |-> NoModule]

CfgA == [n \in ModuleNames |->
            IF n = "http_2xx" THEN [prober |-> "http", timeout |-> 10]
                              ELSE [prober |-> "icmp", timeout |-> 4]]
CfgB == [n \in ModuleNames |->
            IF n = "http_2xx" THEN NoModule
                              ELSE [prober |-> "tcp", timeout |-> 0]]

\* Contents of the configuration file that parse and validate.
FileConfigs == {CfgA, CfgB}
\* Ways ReloadConfig fails.
FileErrors == {"unreadable", "parse error", "invalid"}
\* What reading the configuration file may give: err = "" and a configuration,
\* or an error.
FileStates ==
    {[err |-> "", conf |-> c] : c \in FileConfigs}
        \cup {[err |-> e, conf |-> EmptyConfig] : e \in FileErrors}

\* Probers: the dispatch table.
Probers == {"http", "tcp", "icmp", "dns"}

\* Baseline timeout, 10 s.
DefaultTimeout == 20
\* --timeout-offset, default 0.5 s.
TimeoutOffset == 1

(* ------------------------------ whitelist ------------------------------ *)

\* Width of an IPv4 address of the model; an IPv6 address is four times as
\* wide, as 128 bits are to 32.
AddrBits == 2
V6Bits == 4 * AddrBits
Width(fam) == IF fam = 4 THEN AddrBits ELSE V6Bits

RECURSIVE Pow2(_)
Pow2(n) == IF n <= 0 THEN 1 ELSE 2 * Pow2(n - 1)

\* ::ffff:a.b.c.d, the IPv4-mapped IPv6 address of the IPv4 address v: the
\* marker bit stands for the ffff group, and the leading bits are zero.
Mapped(v) == Pow2(AddrBits) + v

\* (IP).To4() != nil: an IPv4 address, written as IPv4 or as IPv4-mapped IPv6.
IsV4(a) ==
    a.fam = 4 \/ (a.val >= Pow2(AddrBits) /\ a.val < 2 * Pow2(AddrBits))
\* (IP).To4(): the 4-byte form of such an address.
To4(a) == IF IsV4(a) THEN [fam |-> 4, val |-> a.val % Pow2(AddrBits)]
          ELSE [fam |-> a.fam, val |-> a.val]

\* Client addresses requests come from.
ClientAddrs == {[fam |-> 4, val |-> 1], [fam |-> 4, val |-> 2], [fam |-> 6, val |-> 1]}

\* Entries of --web.ip-whitelist: a bare address, a CIDR block, or text that
\* is neither; fam is the family the text is written in.
EntryV6All == [form |-> "cidr", fam |-> 6, val |-> 0, bits |-> 0]
EntryV4One == [form |-> "ip", fam |-> 4, val |-> 1, bits |-> 0]
EntryBad == [form |-> "bad", fam |-> 0, val |-> 0, bits |-> 0]
EntryV6One == [form |-> "ip", fam |-> 6, val |-> 1, bits |-> 0]
EntryMappedOne == [form |-> "ip", fam |-> 6, val |-> Mapped(1), bits |-> 0]
EntryV4Net == [form |-> "cidr", fam |-> 4, val |-> 2, bits |-> AddrBits - 1]
EntryTooLong == [form |-> "cidr", fam |-> 4, val |-> 1, bits |-> AddrBits + 1]

\* Values of the flag: one IPv4 address and every IPv6 address, and a list
\* with a malformed entry.
WhitelistFlags == {<<EntryV4One, EntryV6All>>, <<EntryV4One, EntryBad>>}

\* More values of the flag: single addresses of each written form, a block,
\* and a block whose prefix length is too long for its family.
SingleAddressFlags ==
    WhitelistFlags \cup
        {<<EntryV6One>>, <<EntryMappedOne>>, <<EntryV4Net, EntryV6One>>,
         <<EntryV4One, EntryTooLong>>}

\* net.ParseIP(netIpString) != nil
ParseIPOk(e) == e.form = "ip"

\* The suffix main appends to a bare address: /32 when To4() != nil, else
\* /128; the text before the suffix stays as it was written.
Normalize(e) ==
    IF ParseIPOk(e)
      THEN [e EXCEPT !.form = "cidr", !.bits = IF IsV4(e) THEN AddrBits ELSE V6Bits]
      ELSE e

\* net.ParseCIDR: the address is parsed in the family it is written in and
\* the prefix length must fit that family; the result is the network with
\* the host bits masked off, or an error.
ParseCIDROk(e) == e.form = "cidr" /\ e.bits <= Width(e.fam)
ParseCIDR(e) ==
    [fam |-> e.fam, bits |-> e.bits,
     base |-> (e.val \div Pow2(Width(e.fam) - e.bits)) * Pow2(Width(e.fam) - e.bits)]

RECURSIVE ParseWhitelistSkipBad(_)
ParseWhitelistSkipBad(flag) ==
    IF flag = <<>> THEN [ok |-> TRUE, nets |-> <<>>]
    ELSE LET e == Normalize(Head(flag))
             rest == ParseWhitelistSkipBad(Tail(flag))
         IN IF ~ParseCIDROk(e) THEN rest
            ELSE [ok |-> TRUE, nets |-> <<ParseCIDR(e)>> \o rest.nets]

RECURSIVE ParseWhitelist(_)
\* The loop over strings.Split(*ipWhitelistString, ","): fatal on the first
\* entry ParseCIDR rejects, else the list of networks.
ParseWhitelist(flag) ==
    IF flag = <<>> THEN [ok |-> TRUE, nets |-> <<>>]
    ELSE LET e == Normalize(Head(flag))
             rest == ParseWhitelist(Tail(flag))
         IN IF ~ParseCIDROk(e) \/ ~rest.ok THEN [ok |-> FALSE, nets |-> <<>>]
            ELSE [ok |-> TRUE, nets |-> <<ParseCIDR(e)>> \o rest.nets]

\* net.networkNumberAndMask: a network whose address has a 4-byte form is
\* taken in that form, with the last 4 bytes of its mask.
NetworkNumberAndMask(n) ==
    IF n.fam = 6 /\ IsV4([fam |-> 6, val |-> n.base])
      THEN [fam |-> 4, base |-> n.base % Pow2(AddrBits),
            bits |-> IF n.bits > V6Bits - AddrBits THEN n.bits - (V6Bits - AddrBits) ELSE 0]
      ELSE n

\* (*net.IPNet).Contains: the address is taken in its 4-byte form when it has
\* one, an address of the other length is never contained, and the masked
\* bits of address and network are compared.
Contains(n, a) ==
    LET x == To4(a)
        nn == NetworkNumberAndMask(n)
        span == Pow2(Width(nn.fam) - nn.bits)
    IN  /\ nn.fam = x.fam
        /\ (x.val \div span) * span = (nn.base \div span) * span

\* Status of a denied request.
DenyStatus == 403

\* promhttp.CheckInIpWhitelist: TRUE iff the client address lies in a range.
CheckInIpWhitelist(addr, wl) ==
    \E k \in 1..Len(wl) : Contains(wl[k], addr)

(* --------------------------- /probe requests --------------------------- *)

\* X-Prometheus-Scrape-Timeout-Seconds: absent, unparseable, or a number.
Hints ==
    {[kind |-> "absent", val |-> 0], [kind |-> "bad", val |-> 0]}
        \cup {[kind |-> "num", val |-> v] : v \in {-2, 0, 6, 40}}

\* The config parameter: absent, unparseable, or fields to merge.
NoOverride == [kind |-> "none", prober |-> "", timeout |-> -1]
Overrides ==
    {NoOverride,
     [kind |-> "bad", prober |-> "", timeout |-> -1],
     [kind |-> "ok", prober |-> "", timeout |-> 2],
     [kind |-> "ok", prober |-> "smtp", timeout |-> -1]}

\* The module and target parameters.
ModuleParams == {"", "m2", "nope"}
TargetParams == {"", "t1"}

\* The inputs of one /probe request.
ProbeInputs ==
    [module : ModuleParams, target : TargetParams, hint : Hints, config : Overrides]

\* The timeout headers the requests of the whole server carry.
ServerHints == {h \in Hints : h.kind \in {"absent", "bad"} \/ h.val = 6}

\* Inputs of a request whose parameters have not been looked at.
NoInput ==
    [module |-> "?", target |-> "?", hint |-> [kind |-> "unread", val |-> 0],
     config |-> [kind |-> "unread", prober |-> "", timeout |-> -1]]

\* moduleName, with the default
ModuleNameOf(module) == IF module = "" THEN "http_2xx" ELSE module

\* module, ok := c.Modules[moduleName]
HasModuleAnyName(c, name) == name \in ModuleNames
HasModule(c, name) == name \in ModuleNames /\ c[name] # NoModule
LookupModule(c, name) == IF HasModule(c, name) THEN c[name] ELSE NoModule

\* timeoutSeconds after the header is read and the zero value is replaced.
HintSeconds(h) ==
    LET parsed == IF h.kind = "num" THEN h.val ELSE 0
    IN IF parsed = 0 THEN DefaultTimeout ELSE parsed

\* module.Timeout.Seconds() of the module looked up in the snapshot c.
ModuleTimeoutLive(c, name) == LookupModule(store, name).timeout
ModuleTimeout(c, name) == LookupModule(c, name).timeout

\* timeoutSeconds after the module's ceiling is applied.
ClampTimeoutNoZeroCheck(t, ceiling) == IF ceiling < t THEN ceiling ELSE t
ClampTimeout(t, ceiling) ==
    IF ceiling < t /\ ceiling > 0 THEN ceiling ELSE t

\* The duration given to context.WithTimeout.
Budget(h, ceiling) == ClampTimeout(HintSeconds(h), ceiling) - TimeoutOffset

\* config.RecoverConfig: the override's fields merged onto a copy of the
\* module; an error when the text does not parse.
RecoverConfigOk(o) == o.kind = "ok"
RecoverConfig(o, m) ==
    [prober |-> IF o.prober # "" THEN o.prober ELSE m.prober,
     timeout |-> IF o.timeout >= 0 THEN o.timeout ELSE m.timeout]

NoBody == [kind |-> "none", text |-> "", arg |-> "", conf |-> {}, metrics |-> <<>>]
ErrBody(text, arg) == [NoBody EXCEPT !.kind = "error", !.text = text, !.arg = arg]

\* if target == ""
TargetMissingNever(target) == FALSE
TargetMissing(target) == target = ""

\* probeHandler up to context.WithTimeout: the module is looked up and the
\* deadline derived. Status 0 when the handler goes on, else the rejection.
ProbeDerive(module, hint, c) ==
    LET name == ModuleNameOf(module)
        ceil == ModuleTimeout(c, name)
        go == [status |-> 0, body |-> NoBody, name |-> name,
               base |-> LookupModule(c, name), ceil |-> -1, budget |-> 0]
    IN  IF ~HasModule(c, name)
            THEN [go EXCEPT !.status = 400, !.body = ErrBody("Unknown module", name)]
        ELSE IF hint.kind = "bad"
            THEN [go EXCEPT !.status = 500,
                            !.body = ErrBody("Failed to parse timeout from Prometheus header", "")]
        ELSE [go EXCEPT !.ceil = ceil, !.budget = Budget(hint, ceil)]

\* prober, ok := Probers[module.Prober]
HasProberAny(p) == TRUE
HasProber(p) == p \in Probers

\* probeHandler from the target check to the prober lookup: status 0 when
\* the prober is to be called with module, else the rejection.
ProbeDispatch(target, config, base) ==
    LET given == config.kind # "none"
        eff == IF given THEN RecoverConfig(config, base) ELSE base
        go == [status |-> 0, body |-> NoBody, module |-> base, cfgGiven |-> given]
    IN  IF TargetMissing(target)
            THEN [go EXCEPT !.status = 400,
                            !.body = ErrBody("Target parameter is missing", ""),
                            !.cfgGiven = FALSE]
        ELSE IF given /\ ~RecoverConfigOk(config)
            THEN [go EXCEPT !.status = 400, !.body = ErrBody("config parse error", "")]
        ELSE IF ~HasProber(eff.prober)
            THEN [go EXCEPT !.status = 400, !.body = ErrBody("Unknown prober", eff.prober),
                            !.module = eff]
        ELSE [go EXCEPT !.module = eff]

(* ------------------------------ state ---------------------------------- *)

\* A handler that is not running.
Blank ==
    [pc |-> "idle", ep |-> "", method |-> "", addrOut |-> FALSE, inp |-> NoInput,
     conf |-> EmptyConfig, hasConf |-> FALSE, name |-> "", base |-> NoModule,
     module |-> NoModule, ceil |-> -1, budget |-> 0, cfgGiven |-> FALSE,
     regs |-> <<>>, regId |-> 0, extra |-> <<>>, regMade |-> FALSE, succ |-> 0,
     dur |-> 0, durSet |-> FALSE, invoked |-> 0, probeOk |-> "none", elapsed |-> 0, submitted |-> FALSE,
     status |-> 0, body |-> NoBody]

\* The reload goroutine before it is started.
MedIdle == [pc |-> "off", via |-> "", rc |-> 0, err |-> "", newc |-> EmptyConfig]

NoOutcome == [res |-> "none", conf |-> EmptyConfig]

\* The state when main starts, the whitelist flag being one of flags.
InitFlags(flags) ==
    /\ mainPc = "start"
    /\ store = EmptyConfig
    /\ mu = [writer |-> 0, readers |-> {}]
    /\ ipWhitelistString \in flags
    /\ ipWhitelist = <<>>
    /\ med = MedIdle
    /\ running = 0
    /\ reqs = [i \in Slots |-> Blank]
    /\ triggers = 0
    /\ attempts = 0
    /\ leftStore = EmptyConfig
    /\ outcome = [i \in Slots |-> NoOutcome]

Init == InitFlags(WhitelistFlags)

(* ------------------------------ startup -------------------------------- *)

\* sc.C after a ReloadConfig call that returns an error: as it was.
StoreOnFailureCleared(s, f) == EmptyConfig
StoreOnFailure(s, f) == s

\* main: the initial sc.ReloadConfig; log.Fatalf when it fails.
StartLoad ==
    /\ mainPc = "start"
    /\ \E f \in FileStates :
          IF f.err # ""
            THEN /\ mainPc' = "fatal"
                 /\ store' = StoreOnFailure(store, f)
                 /\ UNCHANGED leftStore
            ELSE /\ mainPc' = "whitelist"
                 /\ store' = f.conf
                 /\ leftStore' = f.conf
    /\ UNCHANGED <<mu, ipWhitelistString, ipWhitelist, med, running, reqs, triggers, attempts, outcome>>

\* main: the whitelist is parsed (log.Fatalf on a malformed entry), the reload
\* goroutine is started and the handlers are registered and served.
StartServe ==
    /\ mainPc = "whitelist"
    /\ LET wl == ParseWhitelist(ipWhitelistString)
       IN IF ~wl.ok
            THEN /\ mainPc' = "fatal"
                 /\ UNCHANGED <<ipWhitelist, med>>
            ELSE /\ mainPc' = "serving"
                 /\ ipWhitelist' = wl.nets
                 /\ med' = [MedIdle EXCEPT !.pc = "loop"]
    /\ UNCHANGED <<store, mu, ipWhitelistString, running, reqs, triggers, attempts,
                   leftStore, outcome>>

(* -------------------------- reload goroutine --------------------------- *)

\* The goroutine is at the top of its for loop or parked in the select.
MediatorIdleAny == TRUE
MediatorIdle == med.pc \in {"loop", "select"}

\* The goroutine reaches the select and parks in it.
MedPark ==
    /\ med.pc = "loop"
    /\ med' = [med EXCEPT !.pc = "select"]
    /\ UNCHANGED <<mainPc, store, mu, ipWhitelistString, ipWhitelist, running, reqs, triggers, attempts,
                   leftStore, outcome>>

\* A SIGHUP is raised. The runtime hands it to hup without blocking: hup has
\* no buffer, so the signal reaches the goroutine only when it is parked in
\* the select, and is dropped otherwise.
Sighup ==
    /\ mainPc = "serving"
    /\ triggers < MaxTriggers
    /\ triggers' = triggers + 1
    /\ IF med.pc = "select"
         THEN /\ med' = [med EXCEPT !.pc = "read", !.via = "hup", !.rc = 0, !.err = ""]
              /\ running' = running + 1
              /\ attempts' = attempts + 1
         ELSE UNCHANGED <<med, running, attempts>>
    /\ UNCHANGED <<mainPc, store, mu, ipWhitelistString, ipWhitelist, reqs, leftStore, outcome>>

\* case rc := <-reloadCh: the goroutine takes the channel a handler is
\* sending; the handler goes on to wait for the answer on it.
MedRecvReload(i) ==
    /\ MediatorIdle
    /\ med.pc # "off"
    /\ reqs[i].pc = "send"
    /\ med' = [med EXCEPT !.pc = "read", !.via = "rc", !.rc = i, !.err = ""]
    /\ reqs' = [reqs EXCEPT ![i].pc = "wait"]
    /\ running' = running + 1
    /\ attempts' = attempts + 1
    /\ UNCHANGED <<mainPc, store, mu, ipWhitelistString, ipWhitelist, triggers, leftStore, outcome>>

\* Where the goroutine goes when ReloadConfig has returned err.
AfterReloadContinueOnError(m, err) ==
    IF m.via = "hup" \/ err # ""
      THEN [MedIdle EXCEPT !.pc = "loop"]
      ELSE [m EXCEPT !.pc = "ack", !.err = err, !.newc = EmptyConfig]
AfterReload(m, err) ==
    IF m.via = "hup"
      THEN [MedIdle EXCEPT !.pc = "loop"]
      ELSE [m EXCEPT !.pc = "ack", !.err = err, !.newc = EmptyConfig]

\* What the attempt run for a request returned.
Recorded(m, res, c) ==
    IF m.via = "rc" THEN [outcome EXCEPT ![m.rc] = [res |-> res, conf |-> c]]
    ELSE outcome

\* sc.ReloadConfig: the file is read, parsed and validated. On an error the
\* call returns it and sc.C is not touched.
ReloadRead ==
    /\ med.pc = "read"
    /\ \E f \in FileStates :
          IF f.err # ""
            THEN /\ med' = AfterReload(med, f.err)
                 /\ store' = StoreOnFailure(store, f)
                 /\ running' = running - 1
                 /\ outcome' = Recorded(med, f.err, EmptyConfig)
            ELSE /\ med' = [med EXCEPT !.pc = "install", !.newc = f.conf]
                 /\ UNCHANGED <<store, running, outcome>>
    /\ UNCHANGED <<mainPc, mu, ipWhitelistString, ipWhitelist, reqs, triggers, attempts, leftStore>>

\* sc.ReloadConfig: sc.Lock(), in which the goroutine waits from the moment
\* the file is read until no request holds the lock; sc.C = c
ReloadInstall ==
    /\ med.pc = "install"
    /\ mu.writer = 0 /\ mu.readers = {}
    /\ mu' = [mu EXCEPT !.writer = -1]
    /\ store' = med.newc
    /\ med' = [med EXCEPT !.pc = "unlock"]
    /\ UNCHANGED <<mainPc, ipWhitelistString, ipWhitelist, running, reqs, triggers, attempts, leftStore,
                   outcome>>

\* sc.ReloadConfig: sc.Unlock(); return nil
ReloadUnlock ==
    /\ med.pc = "unlock"
    /\ mu' = [mu EXCEPT !.writer = 0]
    /\ med' = AfterReload(med, "")
    /\ running' = running - 1
    /\ leftStore' = store
    /\ outcome' = Recorded(med, "ok", med.newc)
    /\ UNCHANGED <<mainPc, store, ipWhitelistString, ipWhitelist, reqs, triggers, attempts>>

\* The value the goroutine sends on rc: err, or nil (written "").
AckValueNil(err) == ""
AckValue(err) == err

\* The response of /-/reload for the value received from rc.
ReloadResponseOk(err) == [status |-> 200, body |-> NoBody]
ReloadResponse(err) ==
    IF err # "" THEN [status |-> 500, body |-> ErrBody("failed to reload config", err)]
    ELSE [status |-> 200, body |-> NoBody]

\* rc <- err / rc <- nil, received by the handler waiting on rc, which
\* writes its response.
MedAck ==
    /\ med.pc = "ack"
    /\ reqs[med.rc].pc = "wait"
    /\ LET resp == ReloadResponse(AckValue(med.err))
       IN reqs' = [reqs EXCEPT ![med.rc].pc = "done",
                               ![med.rc].status = resp.status,
                               ![med.rc].body = resp.body]
    /\ med' = [MedIdle EXCEPT !.pc = "loop"]
    /\ UNCHANGED <<mainPc, store, mu, ipWhitelistString, ipWhitelist, running, triggers, attempts,
                   leftStore, outcome>>

(* ------------------------------ handlers ------------------------------- *)

Endpoints == {"probe", "reload", "config", "root", "metrics"}
Methods == {"GET", "POST"}

\* The handler's return: its locals are gone, the response stays.
Respond(r, status, body) ==
    [Blank EXCEPT !.pc = "done", !.ep = r.ep, !.method = r.method,
                  !.addrOut = r.addrOut, !.inp = r.inp, !.hasConf = r.hasConf,
                  !.extra = r.extra, !.regMade = r.regMade, !.invoked = r.invoked,
                  !.probeOk = r.probeOk, !.durSet = r.durSet, !.elapsed = r.elapsed,
                  !.submitted = r.submitted, !.status = status, !.body = body]

\* The first statement of every handler: the whitelist check of the client
\* address.
GateCheckNotConfig(ep, addr, wl) == ep = "config" \/ CheckInIpWhitelist(addr, wl)
GateCheck(ep, addr, wl) == CheckInIpWhitelist(addr, wl)

\* Where a handler goes once the gate lets the request in.
FirstPc(ep) ==
    CASE ep = "probe" -> "lock"
      [] ep = "reload" -> "method"
      [] ep = "config" -> "rlock"
      [] OTHER -> "serve"

\* Allowed POSTs to /-/reload that have not yet reached the send on reloadCh.
PendingPosts ==
    Cardinality({j \in Slots : reqs[j].ep = "reload" /\ reqs[j].pc = "method"
                                  /\ reqs[j].method = "POST"})

\* A request arrives and its handler runs the gate.
Admit(i, ep, method, addr, in) ==
    LET r == [Blank EXCEPT !.ep = ep, !.method = method, !.inp = in,
                           !.addrOut = ~CheckInIpWhitelist(addr, ipWhitelist)]
    IN  /\ mainPc = "serving"
        /\ reqs[i].pc = "idle"
        /\ IF GateCheck(ep, addr, ipWhitelist)
             THEN reqs' = [reqs EXCEPT ![i] = [r EXCEPT !.pc = FirstPc(ep)]]
             ELSE reqs' = [reqs EXCEPT ![i] = Respond(r, DenyStatus, ErrBody("denied", ""))]
        /\ UNCHANGED <<mainPc, store, mu, ipWhitelistString, ipWhitelist, med, running, triggers, attempts,
                       leftStore, outcome>>

\* A request to one of the endpoints eps; the parameters of a /probe request
\* are drawn when probeHandler reads them.
ArriveAt(i, eps) ==
    \E ep \in eps, addr \in ClientAddrs :
       \E method \in (IF ep = "reload" THEN Methods ELSE {"GET"}) :
          /\ (ep = "reload" /\ method = "POST") => triggers + PendingPosts < MaxTriggers
          /\ Admit(i, ep, method, addr, NoInput)

\* A request to any endpoint.
Arrive(i) == ArriveAt(i, Endpoints)

\* A request to /-/reload or /config.
ArriveAdmin(i) == ArriveAt(i, {"reload", "config"})

\* A /probe request with its parameters fixed on arrival.
ArriveProbe(i) ==
    \E addr \in ClientAddrs, in \in ProbeInputs : Admit(i, "probe", "GET", addr, in)

\* The method /-/reload accepts: r.Method != "POST" is rejected.
MethodAllowedAny(method) == TRUE
MethodAllowed(method) == method = "POST"

\* /-/reload: the method check; a POST makes rc and sends it on reloadCh.
ReloadMethod(i) ==
    /\ reqs[i].pc = "method"
    /\ IF ~MethodAllowed(reqs[i].method)
         THEN /\ reqs' = [reqs EXCEPT ![i] =
                    Respond(reqs[i], 405, ErrBody("This endpoint requires a POST request.", ""))]
              /\ UNCHANGED triggers
         ELSE /\ reqs' = [reqs EXCEPT ![i].pc = "send", ![i].submitted = TRUE]
              /\ triggers' = triggers + 1
    /\ UNCHANGED <<mainPc, store, mu, ipWhitelistString, ipWhitelist, med, running, attempts, leftStore,
                   outcome>>

\* /probe: sc.Lock()
ProbeLock(i) ==
    /\ reqs[i].pc = "lock"
    /\ mu.writer = 0 /\ mu.readers = {}
    /\ mu' = [mu EXCEPT !.writer = i]
    /\ reqs' = [reqs EXCEPT ![i].pc = "locked"]
    /\ UNCHANGED <<mainPc, store, ipWhitelistString, ipWhitelist, med, running, triggers, attempts,
                   leftStore, outcome>>

\* /probe: conf := sc.C; sc.Unlock()
ProbeSnapshot(i) ==
    /\ reqs[i].pc = "locked"
    /\ mu' = [mu EXCEPT !.writer = 0]
    /\ reqs' = [reqs EXCEPT ![i].pc = "handler", ![i].conf = store, ![i].hasConf = TRUE]
    /\ UNCHANGED <<mainPc, store, ipWhitelistString, ipWhitelist, med, running, triggers, attempts,
                   leftStore, outcome>>

\* sc.C after probeHandler has merged an override: the merge is assigned to
\* the handler's own module variable.
StoreAfterOverrideShared(s, name, m) == [s EXCEPT ![name] = m]
StoreAfterOverride(s, name, m) == s

\* registry := prometheus.NewRegistry(): the registry the handler of request i
\* registers in, hands to the prober and renders; it is the handler's own.
RegistryOfShared(i) == 1
RegistryOf(i) == i

\* The collectors probeHandler registers in the request's registry.
CoreMetricsNoDuration == <<"probe_success">>
CoreMetrics == <<"probe_success", "probe_duration_seconds">>

\* /probe: probeHandler from the module lookup to context.WithTimeout.
ProbeTimeout(i) ==
    /\ reqs[i].pc = "handler"
    /\ \E module \in (IF reqs[i].inp = NoInput THEN ModuleParams ELSE {reqs[i].inp.module}),
          hint \in (IF reqs[i].inp = NoInput THEN ServerHints ELSE {reqs[i].inp.hint}) :
          LET res == ProbeDerive(module, hint, reqs[i].conf)
          IN reqs' = [reqs EXCEPT ![i] =
                IF res.status # 0 THEN Respond(reqs[i], res.status, res.body)
                ELSE [reqs[i] EXCEPT !.pc = "derived", !.name = res.name,
                                     !.base = res.base, !.ceil = res.ceil,
                                     !.budget = res.budget]]
    /\ UNCHANGED <<mainPc, store, mu, ipWhitelistString, ipWhitelist, med, running, triggers, attempts,
                   leftStore, outcome>>

\* The handler's locals once the prober is looked up: module is the merged
\* module when a config parameter was given; ctx, made before, keeps the
\* deadline derived from the module of the snapshot.
DispatchedRederive(r, res) ==
    [r EXCEPT !.pc = "probing", !.module = res.module, !.cfgGiven = res.cfgGiven,
              !.ceil = res.module.timeout,
              !.budget = Budget(r.inp.hint, res.module.timeout)]
Dispatched(r, res) ==
    [r EXCEPT !.pc = "probing", !.module = res.module, !.cfgGiven = res.cfgGiven]

\* /probe: probeHandler from the target check to the call of the prober.
ProbeRun(i) ==
    /\ reqs[i].pc = "derived"
    /\ \E target \in (IF reqs[i].inp = NoInput THEN TargetParams ELSE {reqs[i].inp.target}),
          config \in (IF reqs[i].inp = NoInput THEN Overrides ELSE {reqs[i].inp.config}) :
          LET res == ProbeDispatch(target, config, reqs[i].base)
          IN IF res.status # 0
               THEN /\ reqs' = [reqs EXCEPT ![i] = Respond(reqs[i], res.status, res.body)]
                    /\ UNCHANGED store
               ELSE /\ reqs' = [reqs EXCEPT ![i] = Dispatched(reqs[i], res),
                                            ![i].regId = RegistryOf(i),
                                            ![RegistryOf(i)].regs = CoreMetrics,
                                            ![i].regMade = TRUE,
                                            ![i].invoked = reqs[i].invoked + 1]
                    /\ store' = IF res.cfgGiven
                                  THEN StoreAfterOverride(store, reqs[i].name, res.module)
                                  ELSE store
    /\ UNCHANGED <<mainPc, mu, ipWhitelistString, ipWhitelist, med, running, triggers, attempts, leftStore,
                   outcome>>

\* Collectors a prober may add to the registry it is given.
ProberExtras == {<<>>, <<"probe_ip_protocol">>}

\* The value of probe_success after the prober has returned ok.
SuccessValueAlways(ok) == 1
SuccessValue(ok) == IF ok THEN 1 ELSE 0

\* The registry as promhttp renders it: one entry per collector.
Render(regs, succ, dur) ==
    [k \in 1..Len(regs) |->
        <<regs[k], IF regs[k] = "probe_success" THEN succ
                   ELSE IF regs[k] = "probe_duration_seconds" THEN dur
                   ELSE 1>>]

\* /probe: the prober registers its collectors in the registry it was given
\* and returns; the gauges are set and that registry is written as the
\* response.
ProberReturn(i) ==
    /\ reqs[i].pc = "probing"
    /\ \E ok \in BOOLEAN, d \in 0..MaxElapsed, extra \in ProberExtras :
          LET g == reqs[i].regId
              r == [reqs[i] EXCEPT !.probeOk = IF ok THEN "true" ELSE "false",
                                   !.durSet = TRUE, !.elapsed = d, !.extra = extra]
              body == [NoBody EXCEPT !.kind = "metrics",
                                     !.metrics = Render(reqs[g].regs \o extra,
                                                        SuccessValue(ok), d)]
          IN reqs' = [reqs EXCEPT ![g].regs = @ \o extra, ![i] = Respond(r, 200, body)]
    /\ UNCHANGED <<mainPc, store, mu, ipWhitelistString, ipWhitelist, med, running, triggers, attempts,
                   leftStore, outcome>>

\* yaml.Marshal of a configuration: its modules, by name.
Marshal(c) ==
    {<<n, c[n].prober, c[n].timeout>> : n \in {m \in ModuleNames : c[m] # NoModule}}

\* /config: sc.RLock(). No writer holds the lock and none waits in Lock():
\* a waiting writer holds new readers back.
ConfigRLock(i) ==
    /\ reqs[i].pc = "rlock"
    /\ mu.writer = 0
    /\ med.pc # "install"
    /\ mu' = [mu EXCEPT !.readers = @ \cup {i}]
    /\ reqs' = [reqs EXCEPT ![i].pc = "rlocked"]
    /\ UNCHANGED <<mainPc, store, ipWhitelistString, ipWhitelist, med, running, triggers, attempts,
                   leftStore, outcome>>

\* /config: c, err := yaml.Marshal(sc.C); sc.RUnlock(); the response.
ConfigMarshal(i) ==
    /\ reqs[i].pc = "rlocked"
    /\ mu' = [mu EXCEPT !.readers = @ \ {i}]
    /\ \E failed \in BOOLEAN :
          LET r == [reqs[i] EXCEPT !.hasConf = TRUE]
          IN reqs' = [reqs EXCEPT ![i] =
                IF failed THEN Respond(r, 500, ErrBody("marshal error", ""))
                ELSE Respond(r, 200, [NoBody EXCEPT !.kind = "config",
                                                    !.conf = Marshal(store)])]
    /\ UNCHANGED <<mainPc, store, ipWhitelistString, ipWhitelist, med, running, triggers, attempts,
                   leftStore, outcome>>

\* / and /metrics: the landing page, and the exporter's own metrics.
Serve(i) ==
    /\ reqs[i].pc = "serve"
    /\ reqs' = [reqs EXCEPT ![i] =
          IF reqs[i].ep = "root"
            THEN Respond(reqs[i], 200, [NoBody EXCEPT !.kind = "html"])
            ELSE Respond(reqs[i], 200,
                         [NoBody EXCEPT !.kind = "metrics",
                                        !.metrics = <<<<"blackbox_exporter_build_info", 1>>>>])]
    /\ UNCHANGED <<mainPc, store, mu, ipWhitelistString, ipWhitelist, med, running, triggers, attempts,
                   leftStore, outcome>>

\* The response has been sent; the server handles another request.
Finish(i) ==
    /\ reqs[i].pc = "done"
    /\ reqs' = [reqs EXCEPT ![i] = Blank]
    /\ outcome' = [outcome EXCEPT ![i] = NoOutcome]
    /\ UNCHANGED <<mainPc, store, mu, ipWhitelistString, ipWhitelist, med, running, triggers, attempts,
                   leftStore>>

(* --------------------------- specifications ---------------------------- *)

Next ==
    \/ StartLoad
    \/ StartServe
    \/ MedPark
    \/ Sighup
    \/ ReloadRead
    \/ ReloadInstall
    \/ ReloadUnlock
    \/ MedAck
    \/ \E i \in Slots :
          \/ Arrive(i)
          \/ MedRecvReload(i)
          \/ ReloadMethod(i)
          \/ ProbeLock(i)
          \/ ProbeSnapshot(i)
          \/ ProbeTimeout(i)
          \/ ProbeRun(i)
          \/ ProberReturn(i)
          \/ ConfigRLock(i)
          \/ ConfigMarshal(i)
          \/ Serve(i)
          \/ Finish(i)

\* The whole server.
Spec == Init /\ [][Next]_vars

NextProbe ==
    \/ StartLoad
    \/ StartServe
    \/ ArriveProbe(1)
    \/ ProbeLock(1)
    \/ ProbeSnapshot(1)
    \/ ProbeTimeout(1)
    \/ ProbeRun(1)
    \/ ProberReturn(1)
    \/ Finish(1)

\* One /probe request at a time, its parameters fixed when it arrives.
SpecProbe == Init /\ [][NextProbe]_vars

NextWhitelist ==
    \/ StartLoad
    \/ StartServe
    \/ Arrive(1)
    \/ ReloadMethod(1)
    \/ Serve(1)
    \/ Finish(1)

\* Startup with the whitelist flag drawn from more forms of entries, and the
\* gate applied to the requests that arrive.
SpecWhitelist == InitFlags(SingleAddressFlags) /\ [][NextWhitelist]_vars

NextReload ==
    \/ StartLoad
    \/ StartServe
    \/ MedPark
    \/ Sighup
    \/ ReloadRead
    \/ ReloadInstall
    \/ ReloadUnlock
    \/ MedAck
    \/ \E i \in Slots :
          \/ ArriveAdmin(i)
          \/ MedRecvReload(i)
          \/ ReloadMethod(i)
          \/ ConfigRLock(i)
          \/ ConfigMarshal(i)
          \/ Finish(i)

\* What the scheduler and the runtime guarantee: a goroutine that can run
\* does run (the reload goroutine's own steps, a handler's method check, a
\* /config handler that holds the read lock); a sender queued on reloadCh is
\* received when the goroutine comes back to its select often enough; and
\* sc.Lock() in ReloadConfig gets the lock although readers come and go
\* (a waiting writer holds new readers back).
ReloadFairness ==
    /\ WF_vars(MedPark)
    /\ WF_vars(ReloadRead)
    /\ SF_vars(ReloadInstall)
    /\ WF_vars(ReloadUnlock)
    /\ WF_vars(MedAck)
    /\ \A i \in Slots :
          /\ SF_vars(MedRecvReload(i))
          /\ WF_vars(ReloadMethod(i))
          /\ WF_vars(ConfigMarshal(i))

\* The reload protocol, SIGHUPs and /-/reload and /config requests, under
\* fair scheduling.
SpecReload == Init /\ [][NextReload]_vars /\ ReloadFairness

(* ------------------------------- claims -------------------------------- *)

Min(a, b) == IF a < b THEN a ELSE b

\* Number of entries of a rendered registry that carry the name.
EntriesNamed(metrics, name) ==
    Cardinality({k \in 1..Len(metrics) : metrics[k][1] = name})

\* The value of the entry that carries the name.
ValueNamed(metrics, name) ==
    LET k == CHOOSE j \in 1..Len(metrics) : metrics[j][1] = name
    IN metrics[k][2]

\* C1: after startup no two executions of ReloadConfig by the reload
\* goroutine are in progress at the same time, and an attempt that starts
\* finds sc.C as the last attempt that changed it left it.
C1_ReloadsSerialized ==
    /\ running <= 1
    /\ running = 1 <=> med.pc \in {"read", "install", "unlock"}
    /\ med.pc \in {"read", "install"} => store = leftStore

\* C1 witness: an attempt is running while another trigger is waiting for it
\* to finish.
C1_Witness ==
    /\ running = 1
    /\ med.pc = "install"
    /\ attempts = 1
    /\ \E i \in Slots : reqs[i].pc = "send"

\* A ReloadConfig call of the reload goroutine returns an error in this step.
ReloadFailsStep == med.pc = "read" /\ med'.pc \in {"loop", "ack"}

\* C2: a reload attempt that fails, triggered by SIGHUP or by POST /-/reload,
\* leaves sc.C as it was before the attempt, and the /config and /probe
\* requests that read sc.C afterwards get the configuration published by the
\* last successful load.
C2_FailedReloadKeepsStore ==
    /\ [](\A i \in Slots :
            (reqs[i].pc = "wait" /\ outcome[i].res \in FileErrors) => store = leftStore)
    /\ [][/\ ReloadFailsStep => (store' = store /\ store' = leftStore')
          /\ \A i \in Slots :
                /\ (reqs[i].pc = "rlocked" /\ reqs'[i].status = 200)
                      => reqs'[i].body.conf = Marshal(leftStore)
                /\ (reqs[i].pc = "locked" /\ reqs'[i].pc = "handler")
                      => reqs'[i].conf = leftStore]_vars

\* C2 witness: the attempt run for a POST has failed, the store still holds
\* a loaded configuration, and a /config request has been answered with it.
C2_Witness ==
    \E i, j \in Slots :
        /\ reqs[i].pc = "wait" /\ outcome[i].res \in FileErrors
        /\ store \in FileConfigs
        /\ reqs[j].ep = "config" /\ reqs[j].pc = "done" /\ reqs[j].status = 200
        /\ reqs[j].body.conf = Marshal(store)

\* C3: no reload trigger is lost or coalesced: every trigger raised so far
\* has had its own reload attempt or is waiting for one.
C3_EveryTriggerGetsAttempt ==
    triggers = attempts + Cardinality({i \in Slots : reqs[i].pc = "send"})

\* C4: an allowed POST /-/reload gets one outcome, that of the attempt run
\* for its trigger after it was submitted: 200 iff that attempt succeeded and
\* installed the new configuration, 500 with the error text iff it failed.
C4_ReloadOutcomeIsOwn ==
    \A i \in Slots :
        /\ reqs[i].pc = "send" => outcome[i].res = "none"
        /\ reqs[i].pc = "wait" =>
              /\ med.via = "rc" /\ med.rc = i
              /\ outcome[i].res = "ok" => store = outcome[i].conf
        /\ (reqs[i].ep = "reload" /\ reqs[i].pc = "done" /\ reqs[i].submitted) =>
              /\ reqs[i].status \in {200, 500}
              /\ reqs[i].status = 200 <=> outcome[i].res = "ok"
              /\ reqs[i].status = 200 => outcome[i].conf \in FileConfigs
              /\ reqs[i].status = 500 <=> outcome[i].res \in FileErrors
              /\ reqs[i].status = 500 =>
                    reqs[i].body = ErrBody("failed to reload config", outcome[i].res)

\* C4 witness: one POST answered 500 and another answered 200.
C4_Witness ==
    \E i, j \in Slots :
        /\ reqs[i].ep = "reload" /\ reqs[i].pc = "done" /\ reqs[i].status = 500
        /\ reqs[j].ep = "reload" /\ reqs[j].pc = "done" /\ reqs[j].status = 200

\* C5: on every endpoint a request from an address outside every whitelist
\* range is answered with a client-error status and nothing else happens for
\* it: sc.C is not read, no registry is made or rendered, no prober is called
\* and no reload trigger is submitted.
C5_DeniedDoesNothing ==
    \A i \in Slots :
        reqs[i].addrOut =>
            /\ reqs[i].pc = "done"
            /\ reqs[i].status = DenyStatus
            /\ reqs[i].status >= 400 /\ reqs[i].status < 500
            /\ ~reqs[i].hasConf
            /\ ~reqs[i].regMade
            /\ reqs[i].body.kind \notin {"metrics", "config", "html"}
            /\ reqs[i].invoked = 0
            /\ ~reqs[i].submitted
            /\ outcome[i].res = "none"

\* C5 witness: a denied POST /-/reload and a denied /probe.
C5_Witness ==
    \E i, j \in Slots :
        /\ reqs[i].addrOut /\ reqs[i].ep = "reload" /\ reqs[i].method = "POST"
        /\ reqs[j].addrOut /\ reqs[j].ep = "probe"

\* C6: a request uses one configuration generation: the module a /probe
\* request resolves and the timeout ceiling it applies both come from the
\* snapshot it took, which is one published configuration, and /config
\* serialises one published configuration, whatever reloads overlap.
C6_OneGeneration ==
    \A i \in Slots :
        /\ reqs[i].pc = "probing" =>
              \E g \in FileConfigs :
                  /\ reqs[i].conf = g
                  /\ reqs[i].base = g[reqs[i].name]
                  /\ reqs[i].ceil = g[reqs[i].name].timeout
        /\ (reqs[i].ep = "config" /\ reqs[i].pc = "done" /\ reqs[i].status = 200) =>
              \E g \in FileConfigs : reqs[i].body.conf = Marshal(g)

\* C6 witness: a reload has replaced the module while the request that
\* resolved it is probing.
C6_Witness ==
    \E i \in Slots :
        /\ reqs[i].pc = "probing"
        /\ store # reqs[i].conf
        /\ reqs[i].name = "m2"
        /\ store["m2"] # reqs[i].base

\* The request is a /probe request that got past the gate and was answered.
ProbeAnswered(i) ==
    reqs[i].ep = "probe" /\ reqs[i].pc = "done" /\ ~reqs[i].addrOut

\* C7 as stated: a /probe request without target is answered 400 naming the
\* missing target parameter, whatever its other inputs are.
C7_MissingTargetAlways400 ==
    \A i \in Slots :
        (ProbeAnswered(i) /\ reqs[i].inp.target = "") =>
            /\ reqs[i].status = 400
            /\ reqs[i].body.text = "Target parameter is missing"

\* C7 amended: a /probe request without target whose module is in the
\* snapshot and whose timeout header is absent or parseable is answered 400
\* naming the missing target parameter, with or without a config override;
\* an unknown module is answered 400 naming the module and, for a known
\* module, an unparseable header is answered 500.
C7_MissingTargetAfterModuleAndHint ==
    \A i \in Slots :
        (ProbeAnswered(i) /\ reqs[i].inp.target = "") =>
            LET name == IF reqs[i].inp.module = "" THEN "http_2xx" ELSE reqs[i].inp.module
                known == name \in ModuleNames /\ store[name] # NoModule
            IN  /\ (known /\ reqs[i].inp.hint.kind # "bad") =>
                      /\ reqs[i].status = 400
                      /\ reqs[i].body.text = "Target parameter is missing"
                /\ ~known =>
                      /\ reqs[i].status = 400
                      /\ reqs[i].body.text = "Unknown module"
                      /\ reqs[i].body.arg = name
                /\ (known /\ reqs[i].inp.hint.kind = "bad") => reqs[i].status = 500
                /\ reqs[i].invoked = 0

\* C7 witness: a request without target, with a known module, a parseable
\* header and a config override, answered 400.
C7_Witness ==
    \E i \in Slots :
        /\ ProbeAnswered(i)
        /\ reqs[i].inp.target = ""
        /\ reqs[i].inp.module = "m2"
        /\ reqs[i].inp.hint.kind = "num"
        /\ reqs[i].inp.config.kind = "bad"
        /\ reqs[i].status = 400
        /\ reqs[i].body.text = "Target parameter is missing"

\* C8 as stated: the deadline budget is min(c, ceiling) - offset for a
\* positive ceiling and c - offset for a zero ceiling, c being the hint
\* whenever the header is present and parseable, 0 included, and 10 s only
\* when the header is absent.
C8_BudgetHintAnyValue ==
    \A i \in Slots :
        (reqs[i].pc \in {"derived", "probing"} /\ reqs[i].inp # NoInput) =>
            LET h == reqs[i].inp.hint
                c == IF h.kind = "num" THEN h.val ELSE DefaultTimeout
                ceiling == reqs[i].base.timeout
            IN reqs[i].budget =
                  (IF ceiling > 0 THEN Min(c, ceiling) ELSE c) - TimeoutOffset

\* C8 amended: c is the hint when the header is present, parseable and not
\* zero, and 10 s when the header is absent or its value is zero.
C8_BudgetZeroHintIsDefault ==
    \A i \in Slots :
        (reqs[i].pc \in {"derived", "probing"} /\ reqs[i].inp # NoInput) =>
            LET h == reqs[i].inp.hint
                c == IF h.kind = "num" /\ h.val # 0 THEN h.val ELSE DefaultTimeout
                ceiling == reqs[i].base.timeout
            IN  /\ ceiling >= 0
                /\ reqs[i].budget =
                      (IF ceiling > 0 THEN Min(c, ceiling) ELSE c) - TimeoutOffset

\* C8 witness: a zero hint with a zero ceiling gives 10 s less the offset.
C8_Witness ==
    \E i \in Slots :
        /\ reqs[i].pc = "derived"
        /\ reqs[i].inp.hint = [kind |-> "num", val |-> 0]
        /\ reqs[i].base.timeout = 0
        /\ reqs[i].budget = DefaultTimeout - TimeoutOffset

\* C9: config overrides never change sc.C: it stays the configuration the
\* last successful load published, and a request without a config parameter
\* probes with exactly the published module.
C9_OverrideIsRequestLocal ==
    /\ (mainPc = "serving" /\ med.pc # "unlock") => (store = leftStore /\ store \in FileConfigs)
    /\ \A i \in Slots :
          (reqs[i].pc = "probing" /\ ~reqs[i].cfgGiven) =>
              /\ reqs[i].conf \in FileConfigs
              /\ reqs[i].module = reqs[i].conf[reqs[i].name]

\* C9 witness: one request probes with an overridden module while another
\* request for the same module, without override, probes with the module of
\* the store.
C9_Witness ==
    \E i, j \in Slots :
        /\ reqs[i].pc = "probing" /\ reqs[i].cfgGiven
        /\ reqs[i].module # reqs[i].base
        /\ reqs[j].pc = "probing" /\ ~reqs[j].cfgGiven
        /\ reqs[j].name = reqs[i].name
        /\ reqs[j].module = store[reqs[j].name]
        /\ reqs[j].module = reqs[i].base

\* C10: when the prober was called, the response holds exactly one
\* probe_success and one probe_duration_seconds entry; probe_success is 1 iff
\* the prober returned true and else 0; the duration is the elapsed time,
\* not negative, set for either return value.
C10_CoreMetrics ==
    \A i \in Slots :
        (reqs[i].pc = "done" /\ reqs[i].invoked > 0) =>
            LET m == reqs[i].body.metrics
            IN  /\ reqs[i].invoked = 1
                /\ reqs[i].body.kind = "metrics"
                /\ EntriesNamed(m, "probe_success") = 1
                /\ EntriesNamed(m, "probe_duration_seconds") = 1
                /\ ValueNamed(m, "probe_success") \in {0, 1}
                /\ ValueNamed(m, "probe_success") = 1 <=> reqs[i].probeOk = "true"
                /\ reqs[i].durSet
                /\ ValueNamed(m, "probe_duration_seconds") = reqs[i].elapsed
                /\ ValueNamed(m, "probe_duration_seconds") >= 0

\* C10 witness: the prober returned false after some time and registered a
\* collector of its own.
C10_Witness ==
    \E i \in Slots :
        /\ reqs[i].pc = "done" /\ reqs[i].invoked = 1
        /\ reqs[i].probeOk = "false"
        /\ Len(reqs[i].body.metrics) = 3
        /\ ValueNamed(reqs[i].body.metrics, "probe_success") = 0
        /\ ValueNamed(reqs[i].body.metrics, "probe_duration_seconds") = MaxElapsed

\* The names of the entries of a rendered registry, in order.
NamesOf(metrics) == [k \in 1..Len(metrics) |-> metrics[k][1]]

\* C11: for any interleaving of concurrent /probe requests, the registry of a
\* request is its own: while its prober runs it holds only the collectors
\* that request registered and no other request's prober has it, and the
\* response holds exactly the entries registered during that request, with
\* the values that request set.
C11_RegistryIsOwn ==
    \A i \in Slots :
        /\ reqs[i].pc = "probing" =>
              /\ reqs[i].regId = i
              /\ reqs[i].regs = <<"probe_success", "probe_duration_seconds">>
              /\ \A j \in Slots \ {i} : reqs[j].regId # i
        /\ reqs[i].pc # "probing" => (reqs[i].regs = <<>> /\ reqs[i].regId = 0)
        /\ (reqs[i].ep = "probe" /\ reqs[i].pc = "done" /\ reqs[i].invoked > 0) =>
              LET m == reqs[i].body.metrics
              IN  /\ NamesOf(m) = <<"probe_success", "probe_duration_seconds">> \o reqs[i].extra
                  /\ m[1][2] = (IF reqs[i].probeOk = "true" THEN 1 ELSE 0)
                  /\ m[2][2] = reqs[i].elapsed

\* C11 witness: one request has been answered with a collector its prober
\* registered while a second request, whose prober registered none and took
\* a different time with a different result, is answered without it.
C11_Witness ==
    \E i, j \in Slots :
        /\ reqs[i].ep = "probe" /\ reqs[i].pc = "done" /\ reqs[i].invoked = 1
        /\ reqs[j].ep = "probe" /\ reqs[j].pc = "done" /\ reqs[j].invoked = 1
        /\ reqs[i].extra = <<"probe_ip_protocol">> /\ reqs[i].probeOk = "true"
        /\ reqs[j].extra = <<>> /\ reqs[j].probeOk = "false"
        /\ reqs[i].elapsed # reqs[j].elapsed
        /\ Len(reqs[i].body.metrics) = 3 /\ Len(reqs[j].body.metrics) = 2

\* C12: readers of sc never block each other: a /probe or /config request
\* that is about to obtain the configuration can take the lock whenever the
\* reload goroutine neither holds nor waits for it, whatever other requests
\* are obtaining the configuration at that time.
C12_ReadersNeverBlock ==
    \A i \in Slots :
        med.pc \notin {"install", "unlock"} =>
            /\ reqs[i].pc = "lock" => ENABLED ProbeLock(i)
            /\ reqs[i].pc = "rlock" => ENABLED ConfigRLock(i)

\* Every address of the model, of both families.
AllAddrs ==
    {[fam |-> 4, val |-> v] : v \in 0..(Pow2(AddrBits) - 1)}
        \cup {[fam |-> 6, val |-> v] : v \in 0..(Pow2(V6Bits) - 1)}

\* The two addresses name the same host: they are equal, or one is the
\* IPv4-mapped IPv6 form of the other.
SameHost(a, b) ==
    \/ a = b
    \/ a.fam = 4 /\ b.fam = 6 /\ b.val = Pow2(AddrBits) + a.val
    \/ b.fam = 4 /\ a.fam = 6 /\ a.val = Pow2(AddrBits) + b.val
    \/ a.fam = 6 /\ b.fam = 6 /\ a.val = b.val

\* C13: every whitelist entry given as a single address (IPv4, IPv6 or
\* IPv4-mapped IPv6) becomes a range that contains that address and no other
\* address, so only a client with the configured address gets in through it.
C13_SingleAddressIsExact ==
    mainPc = "serving" =>
        \A k \in 1..Len(ipWhitelistString) :
            ipWhitelistString[k].form = "ip" =>
                \A a \in AllAddrs :
                    Contains(ipWhitelist[k], a)
                        <=> SameHost(a, [fam |-> ipWhitelistString[k].fam,
                                         val |-> ipWhitelistString[k].val])

\* C14: a /probe request that has a target and names a module the snapshot
\* does not hold, or names none when the snapshot has no module http_2xx, is
\* answered 400 with a body naming that module, and no prober is called.
C14_UnknownModule400 ==
    \A i \in Slots :
        (ProbeAnswered(i) /\ reqs[i].inp.target # "") =>
            LET name == IF reqs[i].inp.module = "" THEN "http_2xx" ELSE reqs[i].inp.module
            IN (name \notin ModuleNames \/ store[name] = NoModule) =>
                  /\ reqs[i].status = 400
                  /\ reqs[i].body.text = "Unknown module"
                  /\ reqs[i].body.arg = name
                  /\ reqs[i].invoked = 0
                  /\ ~reqs[i].regMade

\* C14 witness: a request with a target and no module parameter, answered
\* 400 naming http_2xx because the loaded configuration has no such module.
C14_Witness ==
    \E i \in Slots :
        /\ ProbeAnswered(i)
        /\ reqs[i].inp.target = "t1" /\ reqs[i].inp.module = ""
        /\ store["http_2xx"] = NoModule /\ store["m2"] # NoModule
        /\ reqs[i].inp.config.kind = "ok"
        /\ reqs[i].status = 400 /\ reqs[i].body.arg = "http_2xx"

\* The entry is neither an address nor a block of its family.
Malformed(e) ==
    \/ e.form = "bad"
    \/ e.form = "cidr" /\ e.bits > (IF e.fam = 4 THEN AddrBits ELSE 4 * AddrBits)

\* C15: the process serves (the reload goroutine runs and requests are
\* handled) only when the initial load succeeded and every whitelist entry
\* parsed; when the load fails or an entry is malformed the process ends
\* fatally, stays ended, and no request is ever handled.
C15_ServeOnlyAfterGoodStartup ==
    /\ [](/\ mainPc = "serving" =>
              /\ leftStore \in FileConfigs
              /\ \A k \in 1..Len(ipWhitelistString) : ~Malformed(ipWhitelistString[k])
              /\ Len(ipWhitelist) = Len(ipWhitelistString)
          /\ mainPc # "serving" =>
              /\ med.pc = "off"
              /\ \A i \in Slots : reqs[i].pc = "idle"
              /\ triggers = 0 /\ attempts = 0
          /\ mainPc \in {"start", "whitelist", "serving", "fatal"})
    /\ [][/\ mainPc = "fatal" => mainPc' = "fatal"
          /\ (mainPc = "start" /\ mainPc' # "start") =>
                \/ mainPc' = "whitelist" /\ store' \in FileConfigs
                \/ mainPc' = "fatal" /\ store' = EmptyConfig
          /\ (mainPc = "whitelist" /\ mainPc' # "whitelist") =>
                IF \E k \in 1..Len(ipWhitelistString) : Malformed(ipWhitelistString[k])
                  THEN mainPc' = "fatal"
                  ELSE mainPc' = "serving" /\ med'.pc = "loop"]_vars

\* C15 witness: the configuration loaded, an entry of the whitelist is
\* malformed, and the process has ended without starting the goroutine.
C15_Witness ==
    /\ mainPc = "fatal"
    /\ store \in FileConfigs
    /\ \E k \in 1..Len(ipWhitelistString) : ipWhitelistString[k].form = "bad"
    /\ med.pc = "off"

\* C16: for every /probe request the prober is called at most once, and it
\* is called exactly when the response is 200 with the metrics body: a
\* request rejected with 400 (missing target, unknown module, unknown prober
\* kind, bad inline config) or 500 (unparseable timeout header) never
\* reaches the prober, and the status is 200 whichever boolean the prober
\* returns.
C16_ProberCalledIffAnswered200 ==
    \A i \in Slots :
        /\ reqs[i].invoked <= 1
        /\ reqs[i].pc = "probing" => reqs[i].invoked = 1
        /\ ProbeAnswered(i) =>
              LET in == reqs[i].inp
                  name == IF in.module = "" THEN "http_2xx" ELSE in.module
                  known == name \in ModuleNames /\ store[name] # NoModule
                  kind == IF in.config.kind = "ok" /\ in.config.prober # ""
                            THEN in.config.prober
                            ELSE IF known THEN store[name].prober ELSE ""
                  rejected == \/ ~known
                              \/ in.hint.kind = "bad"
                              \/ in.target = ""
                              \/ in.config.kind = "bad"
                              \/ kind \notin {"http", "tcp", "icmp", "dns"}
              IN  /\ reqs[i].invoked = 1 <=>
                        (reqs[i].status = 200 /\ reqs[i].body.kind = "metrics")
                  /\ reqs[i].status \in {200, 400, 500}
                  /\ rejected <=> reqs[i].status \in {400, 500}
                  /\ reqs[i].status \in {400, 500} =>
                        (reqs[i].invoked = 0 /\ reqs[i].probeOk = "none")
                  /\ reqs[i].status = 500 <=> (known /\ in.hint.kind = "bad")
                  /\ reqs[i].invoked = 1 => reqs[i].probeOk \in {"true", "false"}

\* C16 witness: the prober was called once, returned false, and the request
\* was answered 200 with the metrics.
C16_Witness ==
    \E i \in Slots :
        /\ ProbeAnswered(i)
        /\ reqs[i].invoked = 1 /\ reqs[i].probeOk = "false"
        /\ reqs[i].status = 200 /\ reqs[i].body.kind = "metrics"
        /\ reqs[i].inp.config.kind = "ok"

\* C17: after startup the reload goroutine is the only writer of sc.C: the
\* store changes only in the step of a reload attempt that installs the
\* configuration just read, under the write lock, and no step of a /probe,
\* /config, /, /metrics or /-/reload handler changes it.
C17_OnlyReloadWritesStore ==
    [][/\ (mainPc = "serving" /\ store' # store) =>
              /\ med.pc = "install" /\ med'.pc = "unlock"
              /\ store' = med.newc
              /\ mu'.writer = -1
              /\ reqs' = reqs
       /\ (\E i \in Slots : reqs'[i] # reqs[i]) => store' = store]_vars

\* C17 witness: a reload attempt has installed a configuration other than
\* the one before it while a /probe request with an inline override, which
\* took its snapshot before, is probing.
C17_Witness ==
    /\ med.pc = "unlock"
    /\ store = med.newc /\ store # leftStore
    /\ \E i \in Slots :
          /\ reqs[i].pc = "probing" /\ reqs[i].cfgGiven
          /\ reqs[i].module # reqs[i].base
          /\ reqs[i].conf = leftStore

\* C18: a request to /-/reload that passes the gate and is not a POST is
\* answered 405 and submits no trigger: it never waits for the reload
\* goroutine, and its handler's step leaves the triggers, the attempts, the
\* goroutine and sc.C as they were.
C18_NonPostReloadIs405 ==
    /\ [](\A i \in Slots :
            (reqs[i].ep = "reload" /\ reqs[i].method # "POST" /\ ~reqs[i].addrOut) =>
                /\ reqs[i].pc \in {"method", "done"}
                /\ ~reqs[i].submitted
                /\ outcome[i].res = "none"
                /\ reqs[i].pc = "done" =>
                      (reqs[i].status = 405 /\ reqs[i].body.kind = "error"))
    /\ [][\A i \in Slots :
            (/\ reqs[i].ep = "reload" /\ reqs[i].method # "POST"
             /\ reqs[i].pc = "method" /\ reqs'[i].pc # "method") =>
                /\ triggers' = triggers /\ attempts' = attempts
                /\ med' = med /\ running' = running
                /\ store' = store /\ leftStore' = leftStore]_vars

\* C18 witness: a GET to /-/reload has been answered 405 while no trigger
\* has been raised and the goroutine is parked in its select.
C18_Witness ==
    \E i \in Slots :
        /\ reqs[i].ep = "reload" /\ reqs[i].method = "GET" /\ ~reqs[i].addrOut
        /\ reqs[i].pc = "done" /\ reqs[i].status = 405
        /\ triggers = 0 /\ attempts = 0 /\ med.pc = "select"

\* C19: under fair scheduling the reload protocol does not deadlock: a POST
\* /-/reload handler that has submitted its trigger is eventually answered
\* with the acknowledgment's status, and after every attempt, failed or not,
\* for a SIGHUP or for a POST, the reload goroutine comes back to where it
\* accepts the next trigger.
C19_ReloadNeverDeadlocks ==
    /\ \A i \in Slots :
          (reqs[i].pc = "send") ~>
              (reqs[i].pc = "done" /\ reqs[i].ep = "reload" /\ reqs[i].status \in {200, 500})
    /\ \A i \in Slots : (reqs[i].pc = "wait") ~> (reqs[i].pc = "done")
    /\ (med.pc \in {"read", "install", "unlock", "ack"}) ~> (med.pc \in {"loop", "select"})

\* C19 witness: after an attempt for a SIGHUP, a POST has been answered 500
\* for its own failed attempt while a second POST waits to be received, and
\* the goroutine is back in its loop.
C19_Witness ==
    \E i, j \in Slots :
        /\ reqs[i].ep = "reload" /\ reqs[i].pc = "done" /\ reqs[i].status = 500
        /\ reqs[j].pc = "send"
        /\ med.pc = "loop"
        /\ attempts >= 1

\* C20: the deadline is derived from the module as the snapshot holds it,
\* before the inline override is merged: the budget the prober is called
\* with is the one the timeout header and the snapshot's module give, with
\* or without a config parameter, also when the override changes the
\* timeout of the module the prober is called with.
C20_BudgetIgnoresOverride ==
    \A i \in Slots :
        (reqs[i].pc = "probing" /\ reqs[i].inp # NoInput) =>
            LET h == reqs[i].inp.hint
                c == IF h.kind = "num" /\ h.val # 0 THEN h.val ELSE DefaultTimeout
                name == IF reqs[i].inp.module = "" THEN "http_2xx" ELSE reqs[i].inp.module
                ceiling == store[name].timeout
            IN  /\ reqs[i].budget =
                      (IF ceiling > 0 THEN Min(c, ceiling) ELSE c) - TimeoutOffset
                /\ reqs[i].inp.config.kind = "none" => reqs[i].module = store[name]
                /\ (reqs[i].inp.config.kind = "ok" /\ reqs[i].inp.config.timeout >= 0) =>
                      reqs[i].module.timeout = reqs[i].inp.config.timeout

\* C20 witness: the prober is called with a module whose timeout the override
\* lowered to 1 s, while the budget is still the snapshot's 2 s ceiling less
\* the offset.
C20_Witness ==
    \E i \in Slots :
        /\ reqs[i].pc = "probing" /\ reqs[i].cfgGiven
        /\ reqs[i].inp.hint = [kind |-> "num", val |-> 6]
        /\ reqs[i].base.timeout = 4
        /\ reqs[i].module.timeout = 2
        /\ reqs[i].budget = 4 - TimeoutOffset

====
